---- MODULE Spec2Model ----
(***************************************************************************)
(* A model of app.py, the Streamlit script of the vectorless-RAG demo.     *)
(*                                                                         *)
(* Streamlit executes the script from its first line to its last on every  *)
(* widget interaction.  A run starts with an empty namespace: the script   *)
(* stores nothing in st.session_state, so `tree`, `doc_id`, `pdf_path` are *)
(* plain script variables of one run.  st.button(label) is True only in    *)
(* the run that the click on that very button triggered.                   *)
(*                                                                         *)
(* Strings are sequences of characters; a URL is split at "/" as the code  *)
(* splits it.  Every external call (requests.get, open/write, the          *)
(* PageIndex client, the chat completion) is one step whose outcome is     *)
(* chosen here, exceptions included: an uncaught exception ends the run.   *)
(* A call is taken to return or raise; user interactions are taken while   *)
(* no run is in progress.                                                  *)
(***************************************************************************)
EXTENDS Integers, Sequences, FiniteSets, TLC

VARIABLES
    pc,             \* position of the running script; "idle": no run, the page waits
    clicked,        \* the widget whose interaction triggered the current/last run
    pdf_url,        \* value of the "PDF URL" text input (line 49)
    uploaded_file,  \* value of the file uploader (line 53): None or Some(file name)
    pdf_path,       \* script variable pdf_path (lines 65, 72)
    doc_id,         \* script variable doc_id (line 84)
    attempt,        \* completed iterations of the readiness loop (line 90)
    tree,           \* script variable tree (line 99)
    reply,          \* script variable tree_search_result (line 118)
    node_list,      \* script variable node_list (line 127)
    relevant_content, \* script variable relevant_content (line 128)
    shown,          \* what the page of the current/last run displays
    calls,          \* the external calls of the current/last run, in order
    files           \* the local filesystem: path -> content

vars == <<pc, clicked, pdf_url, uploaded_file, pdf_path, doc_id, attempt, tree,
          reply, node_list, relevant_content, shown, calls, files>>

(***************************************************************************)
(* Program constants and the bounds of the inputs.                         *)
(***************************************************************************)
MaxAttempts == 20   \* range(20), line 90

MaxNodes == 2       \* nodes of a document tree
MaxList == 3        \* length of a node_list in a model reply

RunButton == "Run Vectorless RAG"
RetrieveButton == "Retrieve Answer"

\* An optional value is a sequence of at most one element: this is how the
\* file uploader's value (None or a file) and a script variable (not yet
\* assigned, or assigned) are written.
None == <<>>
Some(v) == <<v>>
Unbound == <<>>

DefaultUrl == <<"h", "/", "a">>                 \* value= of line 49
Urls == {<<>>, DefaultUrl, <<"h", "/">>}
FileNames == {<<"a">>, <<"c">>}
DocIds == {"doc-1"}

NL == "\n"
Summaries == {<<>>, <<"x", NL>>}

\* Document trees as get_tree(...)["result"] returns them: a list of nodes, each
\* with a node_id, a summary and its child nodes.  Node ids are 0, 1, ... in
\* place of "0000", "0001", ...: the script only compares them for equality.
Leaf(id, s) == [node_id |-> id, summary |-> s, nodes |-> <<>>]
Flat(ss) == [i \in 1..Len(ss) |-> Leaf(i - 1, ss[i])]
Nested(ss) ==
    IF ss = <<>> THEN <<>>
    ELSE << [node_id |-> 0, summary |-> ss[1],
             nodes |-> [i \in 1..(Len(ss) - 1) |-> Leaf(i, ss[i + 1])]] >>
SummarySeqs == UNION {[1..n -> Summaries] : n \in 0..MaxNodes}
Trees == {Flat(ss) : ss \in SummarySeqs} \cup {Nested(ss) : ss \in SummarySeqs}

\* The first completion's reply text, by what json.loads makes of it: not JSON,
\* JSON that is no object, or an object with some of the two fields.  The ids
\* of a node_list may name no node of the tree (MaxNodes never does).
NodeLists == UNION {[1..n -> 0..MaxNodes] : n \in 0..MaxList}
Replies ==
    {[json |-> FALSE, type |-> "none", fields |-> {}, node_list |-> <<>>],
     [json |-> TRUE, type |-> "array", fields |-> {}, node_list |-> <<>>],
     [json |-> TRUE, type |-> "object", fields |-> {}, node_list |-> <<>>],
     [json |-> TRUE, type |-> "object", fields |-> {"thinking"}, node_list |-> <<>>]}
    \cup {[json |-> TRUE, type |-> "object", fields |-> F, node_list |-> L] :
            F \in {{"node_list"}, {"thinking", "node_list"}}, L \in NodeLists}

(***************************************************************************)
(* Pure helpers.                                                           *)
(***************************************************************************)
\* st.button(label): True only in the run triggered by a click on it.
Button(label) == clicked = label

\* pdf_url.split("/")[-1]
RECURSIVE LastSegment(_)
LastSegment(s) ==
    IF s = <<>> THEN <<>>
    ELSE IF s[Len(s)] = "/" THEN <<>>
    ELSE Append(LastSegment(SubSeq(s, 1, Len(s) - 1)), s[Len(s)])

\* os.path.join("data", name)
DataPath(name) == <<"data", "/">> \o name

\* open(path, "wb") on a path naming a directory raises IsADirectoryError
IsDirectoryPath(path) == path[Len(path)] = "/"

\* A validation that tests `is None` where the widget gives "": never true.
NoInputIsNone(url, file) == url = <<"None">> /\ file = None

\* line 57: `not pdf_url and not uploaded_file`
NoInput(url, file) == url = <<>> /\ file = None

\* The branch taken with the URL given precedence over the upload.
InputBranchUrlFirst(url, file) == IF url # <<>> THEN "download" ELSE "save_upload"

\* lines 61, 69: `if uploaded_file: ... else: ...`
InputBranch(url, file) == IF file # None THEN "save_upload" ELSE "download"

\* uploaded_file.getbuffer() and response.content
UploadBytes(name) == [kind |-> "upload", of |-> name, status |-> "ok"]
ResponseBody(url, status) == [kind |-> "download", of |-> url, status |-> status]

\* open(path, "wb").write(content): creates or overwrites the file
WriteFile(fs, path, content) ==
    {f \in fs : f.path # path} \cup {[path |-> path, content |-> content]}

\* utils.create_node_mapping(tree): every node of the tree, at any depth, by id
RECURSIVE NodesOf(_)
NodesOf(t) ==
    IF t = <<>> THEN <<>>
    ELSE <<t[1]>> \o NodesOf(t[1].nodes) \o NodesOf(Tail(t))

CreateNodeMapping(t) ==
    LET ns == NodesOf(t)
        Last(id) == CHOOSE i \in DOMAIN ns :
                        /\ ns[i].node_id = id
                        /\ \A j \in DOMAIN ns : ns[j].node_id = id => j <= i
    IN [id \in {ns[i].node_id : i \in DOMAIN ns} |-> ns[Last(id)]]

\* The summaries of the distinct ids only (a set of ids in place of the list).
RECURSIVE SelectedSummariesDistinct(_, _)
SelectedSummariesDistinct(node_map, ids) ==
    IF ids = <<>> THEN <<>>
    ELSE LET rest == SelectSeq(Tail(ids), LAMBDA x : x # ids[1])
         IN IF ids[1] \in DOMAIN node_map
            THEN <<node_map[ids[1]].summary>> \o SelectedSummariesDistinct(node_map, rest)
            ELSE SelectedSummariesDistinct(node_map, rest)

\* (node_map[nid]["summary"] for nid in node_list if nid in node_map)
RECURSIVE SelectedSummaries(_, _)
SelectedSummaries(node_map, ids) ==
    IF ids = <<>> THEN <<>>
    ELSE IF ids[1] \in DOMAIN node_map
         THEN <<node_map[ids[1]].summary>> \o SelectedSummaries(node_map, Tail(ids))
         ELSE SelectedSummaries(node_map, Tail(ids))

\* sep.join(parts)
RECURSIVE StrJoin(_, _)
StrJoin(sep, parts) ==
    IF parts = <<>> THEN <<>>
    ELSE IF Len(parts) = 1 THEN parts[1]
    ELSE parts[1] \o sep \o StrJoin(sep, Tail(parts))

\* line 128
RelevantContent(node_map, ids) ==
    StrJoin(<<NL, NL>>, SelectedSummaries(node_map, ids))

\* A parse that reads node_list with a default (.get("node_list", [])).
ParseOkDefaultList(r) ==
    /\ r.json
    /\ r.type = "object"
    /\ "thinking" \in r.fields

\* lines 119-123: json.loads succeeds and both subscripts find their key
ParseOk(r) ==
    /\ r.json
    /\ r.type = "object"
    /\ "thinking" \in r.fields
    /\ "node_list" \in r.fields

Call(op, arg, res) == [op |-> op, arg |-> arg, res |-> res]

Count(log, op) == Cardinality({i \in 1..Len(log) : log[i].op = op})

(***************************************************************************)
(* Initial state: the page after its first load (no button clicked).       *)
(***************************************************************************)
Init ==
    /\ pc = "idle"
    /\ clicked = "load"
    /\ pdf_url = DefaultUrl
    /\ uploaded_file = None
    /\ pdf_path = Unbound
    /\ doc_id = Unbound
    /\ attempt = 0
    /\ tree = Unbound
    /\ reply = Unbound
    /\ node_list = Unbound
    /\ relevant_content = Unbound
    /\ shown = {}
    /\ calls = <<>>
    /\ files = {}

\* A rerun: the script starts over with a fresh namespace and a fresh page.
Rerun(widget) ==
    /\ pc = "idle"
    /\ clicked' = widget
    /\ pc' = "start"
    /\ pdf_path' = Unbound
    /\ doc_id' = Unbound
    /\ attempt' = 0
    /\ tree' = Unbound
    /\ reply' = Unbound
    /\ node_list' = Unbound
    /\ relevant_content' = Unbound
    /\ shown' = {}
    /\ calls' = <<>>
    /\ UNCHANGED files

Halt(what) ==
    /\ pc' = "idle"
    /\ shown' = shown \cup {what}

(***************************************************************************)
(* User interactions.  Each one reruns the script.                         *)
(***************************************************************************)
SetUrl(u) ==
    /\ u # pdf_url
    /\ Rerun("PDF URL")
    /\ pdf_url' = u
    /\ UNCHANGED uploaded_file

UploadFile(f) ==
    /\ f # uploaded_file
    /\ Rerun("Choose a PDF file")
    /\ uploaded_file' = f
    /\ UNCHANGED pdf_url

EditQuestion ==
    /\ "question_input" \in shown
    /\ Rerun("Your Question")
    /\ UNCHANGED <<pdf_url, uploaded_file>>

ClickRun ==
    /\ Rerun(RunButton)
    /\ UNCHANGED <<pdf_url, uploaded_file>>

ClickRetrieve ==
    /\ "retrieve_button" \in shown
    /\ Rerun(RetrieveButton)
    /\ UNCHANGED <<pdf_url, uploaded_file>>

(***************************************************************************)
(* The script, step by step.                                               *)
(***************************************************************************)
\* line 55: if st.button("Run Vectorless RAG"); otherwise only the footer runs
ScriptStart ==
    /\ pc = "start"
    /\ pc' = IF Button(RunButton) THEN "validate" ELSE "idle"
    /\ UNCHANGED <<clicked, pdf_url, uploaded_file, pdf_path, doc_id, attempt, tree,
                   reply, node_list, relevant_content, shown, calls, files>>

\* lines 57-61
Validate ==
    /\ pc = "validate"
    /\ IF NoInput(pdf_url, uploaded_file)
         THEN Halt("validation_error")
         ELSE /\ pc' = InputBranch(pdf_url, uploaded_file)
              /\ UNCHANGED shown
    /\ UNCHANGED <<clicked, pdf_url, uploaded_file, pdf_path, doc_id, attempt, tree,
                   reply, node_list, relevant_content, calls, files>>

\* lines 63-68; open/write may raise OSError
SaveUpload(res) ==
    /\ pc = "save_upload"
    /\ pdf_path' = Some(DataPath(uploaded_file[1]))
    /\ calls' = Append(calls, Call("write", pdf_path'[1], res))
    /\ IF res = "ok"
         THEN /\ files' = WriteFile(files, pdf_path'[1], UploadBytes(uploaded_file[1]))
              /\ shown' = shown \cup {"uploaded"}
              /\ pc' = "submit"
         ELSE /\ Halt("exception")
              /\ UNCHANGED files
    /\ UNCHANGED <<clicked, pdf_url, uploaded_file, doc_id, attempt, tree,
                   reply, node_list, relevant_content>>

\* After requests.get returned `res`: does the script go on to write the body?
\* requests.get raises only on a transport failure; the script never looks at
\* the status code (no raise_for_status).
GetReturns(res) == res \in {"ok", "http_error"}

\* lines 71-74: requests.get(pdf_url)
Download(res) ==
    /\ pc = "download"
    /\ pdf_path' = Some(DataPath(LastSegment(pdf_url)))
    /\ calls' = Append(calls, Call("get", pdf_url, res))
    /\ IF GetReturns(res)
         THEN /\ pc' = "save_download"
              /\ UNCHANGED shown
         ELSE Halt("exception")
    /\ UNCHANGED <<clicked, pdf_url, uploaded_file, doc_id, attempt, tree,
                   reply, node_list, relevant_content, files>>

\* lines 75-77: the response body is written whatever its status
SaveDownload(res) ==
    /\ pc = "save_download"
    /\ IsDirectoryPath(pdf_path[1]) => res = "exception"
    /\ calls' = Append(calls, Call("write", pdf_path[1], res))
    /\ IF res = "ok"
         THEN /\ files' = WriteFile(files, pdf_path[1],
                                    ResponseBody(pdf_url, calls[Len(calls)].res))
              /\ shown' = shown \cup {"downloaded"}
              /\ pc' = "submit"
         ELSE /\ Halt("exception")
              /\ UNCHANGED files
    /\ UNCHANGED <<clicked, pdf_url, uploaded_file, pdf_path, doc_id, attempt, tree,
                   reply, node_list, relevant_content>>

\* A submit whose failure is swallowed.
SubmitNextIgnoresFailure(res) == "poll"

\* After submit_document returned or raised: the script goes on only with a doc_id
SubmitNext(res) == IF res = "ok" THEN "poll" ELSE "idle"

\* lines 80-85: pi_client.submit_document(pdf_path)["doc_id"]
Submit(res, d) ==
    /\ pc = "submit"
    /\ calls' = Append(calls, Call("submit", pdf_path[1], res))
    /\ pc' = SubmitNext(res)
    /\ IF res = "ok"
         THEN /\ doc_id' = Some(d)
              /\ shown' = shown \cup {"submitted"}
         ELSE /\ shown' = shown \cup {"exception"}
              /\ UNCHANGED doc_id
    /\ UNCHANGED <<clicked, pdf_url, uploaded_file, pdf_path, attempt, tree,
                   reply, node_list, relevant_content, files>>

\* A loop body without the break.
PollNextNoBreak(res) == IF res = "exception" THEN "idle" ELSE "sleep"

\* lines 91-93: where the loop body goes after is_retrieval_ready answered
PollNext(res) ==
    CASE res = "ready" -> "get_tree"        \* break
      [] res = "not_ready" -> "sleep"
      [] OTHER -> "idle"                    \* the check raised

\* lines 90-92: one readiness check
Poll(res) ==
    /\ pc = "poll"
    /\ calls' = Append(calls, Call("is_retrieval_ready", doc_id[1], res))
    /\ pc' = PollNext(res)
    /\ shown' = IF res = "exception" THEN shown \cup {"exception"} ELSE shown
    /\ UNCHANGED <<clicked, pdf_url, uploaded_file, pdf_path, doc_id, attempt, tree,
                   reply, node_list, relevant_content, files>>

\* A loop that goes round once more than the cap.
LoopNextOneMore(n) == IF n <= MaxAttempts THEN "poll" ELSE "timeout"

\* line 90: the loop goes round while the range has a next element
LoopNext(n) == IF n < MaxAttempts THEN "poll" ELSE "timeout"

\* line 93: time.sleep(1), then the next iteration or the loop's else
Sleep ==
    /\ pc = "sleep"
    /\ calls' = Append(calls, Call("sleep", 1, "ok"))
    /\ attempt' = attempt + 1
    /\ pc' = LoopNext(attempt')
    /\ UNCHANGED <<clicked, pdf_url, uploaded_file, pdf_path, doc_id, tree,
                   reply, node_list, relevant_content, shown, files>>

\* lines 94-96: the loop's else: st.error, st.stop()
Timeout ==
    /\ pc = "timeout"
    /\ Halt("timeout_error")
    /\ UNCHANGED <<clicked, pdf_url, uploaded_file, pdf_path, doc_id, attempt, tree,
                   reply, node_list, relevant_content, calls, files>>

\* lines 99-101: pi_client.get_tree(doc_id, node_summary=True)["result"]
GetTree(res, t) ==
    /\ pc = "get_tree"
    /\ calls' = Append(calls, Call("get_tree", doc_id[1], res))
    /\ IF res = "ok"
         THEN /\ tree' = Some(t)
              /\ shown' = shown \cup {"tree"}
              /\ pc' = "question"
         ELSE /\ Halt("exception")
              /\ UNCHANGED tree
    /\ UNCHANGED <<clicked, pdf_url, uploaded_file, pdf_path, doc_id, attempt,
                   reply, node_list, relevant_content, files>>

\* lines 104-106: the question input and if st.button("Retrieve Answer")
Question ==
    /\ pc = "question"
    /\ shown' = shown \cup {"question_input", "retrieve_button"}
    /\ pc' = IF Button(RetrieveButton) THEN "select" ELSE "idle"
    /\ UNCHANGED <<clicked, pdf_url, uploaded_file, pdf_path, doc_id, attempt, tree,
                   reply, node_list, relevant_content, calls, files>>

\* lines 107-118: the first completion call (node selection)
SelectCall(res, r) ==
    /\ pc = "select"
    /\ calls' = Append(calls, Call("completion", "search_prompt", res))
    /\ IF res = "ok"
         THEN /\ reply' = Some(r)
              /\ pc' = "parse"
              /\ UNCHANGED shown
         ELSE /\ Halt("exception")
              /\ UNCHANGED reply
    /\ UNCHANGED <<clicked, pdf_url, uploaded_file, pdf_path, doc_id, attempt, tree,
                   node_list, relevant_content, files>>

\* lines 119-123: json.loads, ["thinking"], ["node_list"]
ParseReply ==
    /\ pc = "parse"
    /\ IF ParseOk(reply[1])
         THEN /\ shown' = shown \cup {"reasoning", "node_ids"}
              /\ pc' = "context"
         ELSE /\ pc' = "idle"
              /\ shown' = shown \cup {"exception"} \cup
                    (IF reply[1].type = "object" /\ "thinking" \in reply[1].fields
                     THEN {"reasoning"} ELSE {})
    /\ UNCHANGED <<clicked, pdf_url, uploaded_file, pdf_path, doc_id, attempt, tree,
                   reply, node_list, relevant_content, calls, files>>

\* lines 126-130
AssembleContext ==
    /\ pc = "context"
    /\ node_list' = Some(reply[1].node_list)
    /\ relevant_content' =
           Some(RelevantContent(CreateNodeMapping(tree[1]), node_list'[1]))
    /\ shown' = shown \cup {"context"}
    /\ pc' = "answer"
    /\ UNCHANGED <<clicked, pdf_url, uploaded_file, pdf_path, doc_id, attempt, tree,
                   reply, calls, files>>

\* lines 133-143: the second completion call (the answer)
AnswerCall(res) ==
    /\ pc = "answer"
    /\ calls' = Append(calls, Call("completion", "answer_prompt", res))
    /\ IF res = "ok"
         THEN /\ pc' = "idle"
              /\ shown' = shown \cup {"answer"}
         ELSE Halt("exception")
    /\ UNCHANGED <<clicked, pdf_url, uploaded_file, pdf_path, doc_id, attempt, tree,
                   reply, node_list, relevant_content, files>>

(***************************************************************************)
(* The application: user interactions and the runs they trigger.  The      *)
(* steps of lines 107-143 are no part of it: Question never leaves for     *)
(* "select", because a run that reaches line 106 was triggered by the      *)
(* click on "Run Vectorless RAG".                                          *)
(***************************************************************************)
UserAction ==
    \/ \E u \in Urls : SetUrl(u)
    \/ \E f \in {None} \cup {Some(n) : n \in FileNames} : UploadFile(f)
    \/ EditQuestion
    \/ ClickRun
    \/ ClickRetrieve

ScriptStep ==
    \/ ScriptStart
    \/ Validate
    \/ \E res \in {"ok", "exception"} : SaveUpload(res)
    \/ \E res \in {"ok", "http_error", "exception"} : Download(res)
    \/ \E res \in {"ok", "exception"} : SaveDownload(res)
    \/ \E res \in {"ok", "exception"}, d \in DocIds : Submit(res, d)
    \/ \E res \in {"ready", "not_ready", "exception"} : Poll(res)
    \/ Sleep
    \/ Timeout
    \/ \E res \in {"ok", "exception"}, t \in Trees : GetTree(res, t)
    \/ Question

Next == UserAction \/ ScriptStep

Spec == Init /\ [][Next]_vars

\* A started run is carried through: the script is a sequential program.
FairSpec == Spec /\ WF_vars(ScriptStep)

(***************************************************************************)
(* The body of `if st.button("Retrieve Answer")`, lines 107-143, from its  *)
(* entry with a tree bound, for every tree and every reply.  InitAnswer is  *)
(* the state line 107 would be entered in were st.button("Retrieve         *)
(* Answer") True; no behaviour of Spec reaches it.                         *)
(***************************************************************************)
InitAnswer ==
    /\ pc = "select"
    /\ clicked = RetrieveButton
    /\ pdf_url = DefaultUrl
    /\ uploaded_file = None
    /\ pdf_path = Some(DataPath(LastSegment(DefaultUrl)))
    /\ doc_id \in {Some(d) : d \in DocIds}
    /\ attempt = 0
    /\ tree \in {Some(t) : t \in Trees}
    /\ reply = Unbound
    /\ node_list = Unbound
    /\ relevant_content = Unbound
    /\ shown = {"tree", "question_input", "retrieve_button"}
    /\ calls = <<>>
    /\ files = {}

NextAnswer ==
    \/ \E res \in {"ok", "exception"}, r \in Replies : SelectCall(res, r)
    \/ ParseReply
    \/ AssembleContext
    \/ \E res \in {"ok", "exception"} : AnswerCall(res)

SpecAnswer == InitAnswer /\ [][NextAnswer]_vars

(***************************************************************************)
(* What the calls of a run show.                                           *)
(***************************************************************************)
NumGet == Count(calls, "get")
NumSubmit == Count(calls, "submit")
NumChecks == Count(calls, "is_retrieval_ready")
NumSleeps == Count(calls, "sleep")
NumTree == Count(calls, "get_tree")
NumCompletion == Count(calls, "completion")

\* The readiness checks of the run, and the loop's calls with the fetch after it
CheckLog == SelectSeq(calls, LAMBDA c : c.op = "is_retrieval_ready")
PollLog == SelectSeq(calls, LAMBDA c : c.op \in {"is_retrieval_ready", "sleep", "get_tree"})

\* The service answers "ready" for the first time on the k-th check
FirstReadyAt(k) ==
    /\ Len(CheckLog) >= k
    /\ CheckLog[k].res = "ready"
    /\ \A j \in 1..(k - 1) : CheckLog[j].res = "not_ready"

\* The service answered "not ready" to MaxAttempts checks
NeverReady ==
    /\ Len(CheckLog) >= MaxAttempts
    /\ \A j \in 1..MaxAttempts : CheckLog[j].res = "not_ready"

\* C1: once the tree is shown, a click on "Retrieve Answer" starts node
\* selection: the run it triggers makes the first completion call (and, when
\* that call fails, reports it).  Stated of the finished run.
C1_RetrieveStartsSelection ==
    (clicked = RetrieveButton /\ pc = "idle") => NumCompletion >= 1

\* C2: if the service first reports ready on the k-th check (1 <= k <= 20),
\* exactly k checks are made, a one-second sleep separates consecutive checks
\* (k-1 sleeps), and the tree is then fetched exactly once.
C2_ReadyAtK ==
    \A k \in 1..MaxAttempts :
        FirstReadyAt(k) =>
            /\ NumChecks = k
            /\ NumSleeps = k - 1
            /\ \A i \in 1..(2 * k - 1) :
                   /\ PollLog[i].op = IF i % 2 = 1 THEN "is_retrieval_ready" ELSE "sleep"
                   /\ PollLog[i].op = "sleep" => PollLog[i].arg = 1
            /\ IF pc = "get_tree"
                 THEN NumTree = 0
                 ELSE NumTree = 1 /\ PollLog[2 * k].op = "get_tree"

C2_Witness ==
    /\ FirstReadyAt(MaxAttempts)
    /\ NumTree = 1
    /\ tree # Unbound

\* C3: the loop never makes more than 20 checks; when all 20 say "not ready"
\* the run reports "still processing" and ends with no tree fetch and no
\* completion call; and a run that polls always comes to its end.
C3_Safety ==
    /\ NumChecks <= MaxAttempts
    /\ NeverReady =>
          /\ NumChecks = MaxAttempts
          /\ NumTree = 0
          /\ NumCompletion = 0
          /\ tree = Unbound
          /\ pc \in {"sleep", "timeout", "idle"}
          /\ pc = "idle" => "timeout_error" \in shown /\ NumSleeps = MaxAttempts
    /\ "timeout_error" \in shown => NeverReady /\ pc = "idle"

C3_ReadinessTimeout == []C3_Safety /\ ((pc = "poll") ~> (pc = "idle"))

C3_Witness ==
    /\ NeverReady
    /\ "timeout_error" \in shown
    /\ pc = "idle"

\* C6: a run of the ingestion action with no uploaded file and an empty URL
\* reports a validation error and makes no call at all: no download, no file
\* write, no submit, no readiness check, no tree fetch, no completion.
C6_NoInputNoIO ==
    (clicked = RunButton /\ pdf_url = <<>> /\ uploaded_file = <<>>
        /\ pc \notin {"start", "validate"}) =>
            /\ pc = "idle"
            /\ "validation_error" \in shown
            /\ calls = <<>>
            /\ tree = Unbound

C6_Witness ==
    /\ clicked = RunButton
    /\ pdf_url = <<>>
    /\ uploaded_file = <<>>
    /\ "validation_error" \in shown

\* C7: a fetched tree stays as it is through every later user action, until a
\* new ingestion (a click on "Run Vectorless RAG") replaces it.
C7_TreeKept ==
    [][(tree # Unbound /\ tree' # tree) => clicked' = RunButton]_vars

\* C8: on the URL path, after a GET that did not fetch the document (it
\* raised, or it returned an HTTP error status) nothing is submitted, no
\* readiness check or tree fetch follows, and the GET is not repeated.
C8_FailedGetHalts ==
    \A i \in 1..Len(calls) :
        (calls[i].op = "get" /\ calls[i].res # "ok") =>
            /\ NumGet = 1
            /\ NumSubmit = 0
            /\ NumChecks = 0
            /\ NumTree = 0

\* The pipeline stage of a call: storing the input, submit, the readiness
\* loop, the tree fetch, the selection completion, the answer completion.
Stage(c) ==
    CASE c.op \in {"get", "write"} -> 0
      [] c.op = "submit" -> 1
      [] c.op \in {"is_retrieval_ready", "sleep"} -> 2
      [] c.op = "get_tree" -> 3
      [] c.op = "completion" /\ c.arg = "search_prompt" -> 4
      [] c.op = "completion" /\ c.arg = "answer_prompt" -> 5

\* The result with which a call of stage n lets stage n+1 start
Passed(c) ==
    CASE Stage(c) = 2 -> c.res = "ready"
      [] OTHER -> c.res = "ok"

\* C9: in every run the calls come in the order submit, readiness checks, tree
\* fetch, selection call, answer call; a call of one stage is made only after
\* a call of the stage before it returned successfully; submit, tree fetch and
\* the two completion calls are made at most once; after a call that raised
\* (or a poll that timed out) no call follows.
C9_StageOrder ==
    /\ \A i \in 1..(Len(calls) - 1) : Stage(calls[i]) <= Stage(calls[i + 1])
    /\ \A n \in {1, 3, 4, 5} :
          Cardinality({i \in 1..Len(calls) : Stage(calls[i]) = n}) <= 1
    /\ \A j \in 2..Len(calls) :
          Stage(calls[j]) > Stage(calls[j - 1]) =>
              /\ Stage(calls[j]) >= 2 => Stage(calls[j - 1]) = Stage(calls[j]) - 1
              /\ Passed(calls[j - 1])
    /\ calls # <<>> => Stage(calls[1]) = 0
    /\ \A i \in 1..Len(calls) :
          calls[i].res = "exception" => i = Len(calls) /\ pc = "idle"
    /\ "timeout_error" \in shown => calls[Len(calls)].op = "sleep" /\ pc = "idle"

C9_Witness ==
    /\ pc = "idle"
    /\ NumSubmit = 1
    /\ NumChecks >= 2
    /\ NumTree = 1
    /\ tree # Unbound

\* C10: when the action runs with an uploaded file (a URL given or not), no
\* GET is made, the file's bytes are written to data/<its name> and that path
\* is the one submitted; a GET is made only when no file is uploaded.
C10_UploadPrecedence ==
    /\ (clicked = RunButton /\ uploaded_file # <<>>) =>
          /\ NumGet = 0
          /\ \A i \in 1..Len(calls) :
                calls[i].op \in {"write", "submit"} =>
                    calls[i].arg = <<"data", "/">> \o uploaded_file[1]
          /\ \A i \in 1..Len(calls) :
                calls[i].op = "submit" =>
                    /\ calls[i - 1].op = "write"
                    /\ [path |-> calls[i].arg,
                        content |-> [kind |-> "upload", of |-> uploaded_file[1],
                                     status |-> "ok"]] \in files
    /\ NumGet > 0 => uploaded_file = <<>>

C10_Witness ==
    /\ clicked = RunButton
    /\ uploaded_file # <<>>
    /\ pdf_url # <<>>
    /\ NumSubmit = 1
    /\ NumGet = 0

\* The ids of L that are keys of the node map, in L's order, duplicates kept
KnownIds(node_map, L) == SelectSeq(L, LAMBDA id : id \in DOMAIN node_map)

\* Where the i-th summary starts in the joined text: after the i-1 summaries
\* before it and a two-character separator behind each of them
RECURSIVE Offset(_, _)
Offset(parts, i) ==
    IF i = 1 THEN 0 ELSE Offset(parts, i - 1) + Len(parts[i - 1]) + 2

\* C4: the assembled context is the join, in the order of the returned id
\* list L (duplicates kept), of the summaries of exactly those ids of L that
\* are keys of the node map; ids that are no keys are skipped; the context is
\* the empty string when no id of L is a key.  Stated position by position:
\* the text is as long as the summaries and the separators between them, the
\* i-th summary stands at its offset, and "\n\n" stands between neighbours.
C4_ContextAssembly ==
    relevant_content # Unbound =>
        LET M == CreateNodeMapping(tree[1])
            L == reply[1].node_list
            K == KnownIds(M, L)
            S == [i \in 1..Len(K) |-> M[K[i]].summary]
            c == relevant_content[1]
        IN /\ node_list = Some(L)
           /\ K = <<>> => c = <<>>
           /\ K # <<>> => Len(c) = Offset(S, Len(K)) + Len(S[Len(K)])
           /\ \A i \in 1..Len(K) :
                 /\ SubSeq(c, Offset(S, i) + 1, Offset(S, i) + Len(S[i])) = S[i]
                 /\ i < Len(K) =>
                       /\ c[Offset(S, i) + Len(S[i]) + 1] = NL
                       /\ c[Offset(S, i) + Len(S[i]) + 2] = NL

\* A context made from a list with an unknown id and a repeated known id
C4_Witness ==
    /\ relevant_content # Unbound
    /\ \E i \in 1..Len(node_list[1]) :
          node_list[1][i] \notin DOMAIN CreateNodeMapping(tree[1])
    /\ \E i, j \in 1..Len(node_list[1]) :
          /\ i < j
          /\ node_list[1][i] = node_list[1][j]
          /\ node_list[1][i] \in DOMAIN CreateNodeMapping(tree[1])
          /\ CreateNodeMapping(tree[1])[node_list[1][i]].summary # <<>>
    /\ "context" \in shown

\* The reply is no JSON, or is JSON without the thinking or the node_list field
Malformed(r) ==
    \/ ~r.json
    \/ "thinking" \notin r.fields
    \/ "node_list" \notin r.fields

\* C5: after a first reply that is not JSON, or lacks one of the two fields,
\* the question ends with the error reported: no context is assembled, no
\* second completion call is made, and the first call is not made again.
C5_MalformedReplyFatal ==
    (reply # Unbound /\ Malformed(reply[1]) /\ pc # "parse") =>
        /\ pc = "idle"
        /\ "exception" \in shown
        /\ node_list = Unbound
        /\ relevant_content = Unbound
        /\ "context" \notin shown
        /\ "answer" \notin shown
        /\ NumCompletion = 1

\* The reply that omits node_list has been parsed
C5_Witness ==
    /\ reply # Unbound
    /\ reply[1].json
    /\ reply[1].fields = {"thinking"}
    /\ pc = "idle"
    /\ "exception" \in shown
====
